---------------------------- MODULE Spec2Model ----------------------------
(***************************************************************************)
(* Model of the Notion database client: NotionAPI (credential check,       *)
(* identifier formatting, the cursor-driven query loop, table assembly)    *)
(* and NotionPage / NotionPageProperty (the property decoder).             *)
(***************************************************************************)
EXTENDS Integers, Sequences, FiniteSets, TLC

(***************************************************************************)
(* Python values.  Every value is a record [k, v]: k is the Python type,   *)
(* v the content.  Dicts are TLA+ records, lists are sequences, str values *)
(* that are only passed around are TLA+ strings; identifiers and URLs,     *)
(* which the code slices, are sequences of one-character strings.          *)
(***************************************************************************)
PyNone == [k |-> "none", v |-> "None"]

PyNaN == [k |-> "nan", v |-> "NaN"]

PyBool(b) == [k |-> "bool", v |-> b]

PyInt(n) == [k |-> "int", v |-> n]

\* A str the code only passes around.
PyStr(s) == [k |-> "str", v |-> s]

\* A str the code slices or searches: a sequence of characters.
PyChars(s) == [k |-> "chars", v |-> s]

PyList(s) == [k |-> "list", v |-> s]

PyDict(d) == [k |-> "dict", v |-> d]

\* Python truthiness, as used by `not self.value`.
Truthy(x) ==
    CASE x.k = "none" -> FALSE
      [] x.k = "bool" -> x.v
      [] x.k = "int" -> x.v # 0
      [] x.k = "str" -> x.v # ""
      [] x.k = "chars" -> x.v # <<>>
      [] x.k = "list" -> x.v # <<>>
      [] x.k = "dict" -> DOMAIN x.v # {}
      [] OTHER -> TRUE

\* Whether len() is defined on the value (it raises TypeError on int, bool).
HasLen(x) == x.k \in {"str", "chars", "list", "dict"}

PyLen(x) ==
    CASE x.k = "str" -> IF x.v = "" THEN 0 ELSE 1
      [] x.k \in {"list", "chars"} -> Len(x.v)
      [] x.k = "dict" -> Cardinality(DOMAIN x.v)
      [] OTHER -> 0

\* The outcome of a call: a returned value or a raised exception.
Return(x) == [ok |-> TRUE, val |-> x, err |-> "none"]

Raise(e) == [ok |-> FALSE, val |-> PyNone, err |-> e]

\* d[key] on a Python value: KeyError on a dict without the key, TypeError
\* on a value that is no dict.
GetItem(d, key) ==
    IF d.k # "dict" THEN Raise("TypeError")
    ELSE IF key \notin DOMAIN d.v THEN Raise("KeyError")
    ELSE Return(d.v[key])

\* x[0] on a Python value.
First(x) ==
    IF x.k = "list"
    THEN IF x.v = <<>> THEN Raise("IndexError") ELSE Return(x.v[1])
    ELSE IF x.k = "dict" THEN Raise("KeyError")
    ELSE Raise("TypeError")

(***************************************************************************)
(* NotionRichTextObject                                                    *)
(***************************************************************************)
\* The constructor reads plain_text, href, annotations and type;
\* get_plain_text returns the first.
NotionRichTextObject(o) ==
    IF o.k # "dict" THEN Raise("TypeError")
    ELSE IF {"plain_text", "href", "annotations", "type"} \subseteq DOMAIN o.v
         THEN Return(o.v.plain_text)
         ELSE Raise("KeyError")

(***************************************************************************)
(* NotionPageProperty.  A property is [id, type, value], value being       *)
(* page_property[type].                                                    *)
(***************************************************************************)
_get_title_value(value) ==
    LET f == First(value) IN IF f.ok THEN NotionRichTextObject(f.val) ELSE f

_get_rich_text_value(value) ==
    LET f == First(value) IN IF f.ok THEN NotionRichTextObject(f.val) ELSE f

_get_files_value(value) ==
    LET f == First(value) IN IF f.ok THEN GetItem(f.val, "name") ELSE f

_get_select_value(value) == GetItem(value, "name")

_get_rollup_value(value) ==
    LET t == GetItem(value, "type")
    IN  IF ~t.ok THEN t
        ELSE IF t.val.k # "str" THEN Raise("TypeError")
        ELSE GetItem(value, t.val.v)

_get_number_value(value) == Return(value)

_get_checkbox_value(value) == Return(value)

_get_string_value(value) == Return(value)

\* [sel["name"] for sel in value], failing at the first element without it.
FieldOfEach(value, field) ==
    IF value.k # "list" THEN Raise("TypeError")
    ELSE LET items == [i \in 1..Len(value.v) |-> GetItem(value.v[i], field)]
         IN  IF \E i \in 1..Len(items) : ~items[i].ok
             THEN items[CHOOSE i \in 1..Len(items) :
                          /\ ~items[i].ok
                          /\ \A j \in 1..(i - 1) : items[j].ok]
             ELSE Return(PyList([i \in 1..Len(items) |-> items[i].val]))

_get_multi_select_value(value) == FieldOfEach(value, "name")

_get_relation_value(value) == FieldOfEach(value, "id")

\* The keys of type_to_function.
KnownTypes ==
    {"title", "rich_text", "relation", "multi_select", "phone_number",
     "rollup", "url", "date", "select", "email", "files", "number"}

type_to_function(type, value) ==
    CASE type = "title" -> _get_title_value(value)
      [] type = "rich_text" -> _get_rich_text_value(value)
      [] type = "relation" -> _get_relation_value(value)
      [] type = "multi_select" -> _get_multi_select_value(value)
      [] type \in {"phone_number", "url", "date", "email"} ->
            _get_string_value(value)
      [] type = "rollup" -> _get_rollup_value(value)
      [] type = "select" -> _get_select_value(value)
      [] type = "files" -> _get_files_value(value)
      [] type = "number" -> _get_number_value(value)
      [] OTHER -> Raise("KeyError")

get_value(prop) ==
    IF prop.type = "checkbox" THEN _get_checkbox_value(prop.value)
    ELSE IF ~Truthy(prop.value) THEN Return(PyNone)
    ELSE IF prop.type # "number" /\ ~HasLen(prop.value) THEN Raise("TypeError")
    ELSE IF prop.type # "number" /\ PyLen(prop.value) = 0 THEN Return(PyNone)
    ELSE type_to_function(prop.type, prop.value)

Prop(i, t, x) == [id |-> i, type |-> t, value |-> x]

RichText(s) ==
    PyDict([plain_text |-> PyStr(s), href |-> PyNone,
            annotations |-> PyDict([bold |-> PyBool(FALSE)]),
            type |-> PyStr("text")])

Named(s) == PyDict([name |-> PyStr(s)])

\* The property payloads the decoder is applied to: every recognized tag
\* with a filled and an empty value, the falsy literals of checkbox and
\* number, and unrecognized tags with null, empty and filled values.
Payloads ==
    { Prop("p01", "title", PyList(<<RichText("Alice")>>)),
      Prop("p02", "title", PyList(<<>>)),
      Prop("p03", "rich_text", PyList(<<RichText("hello"), RichText("x")>>)),
      Prop("p04", "rich_text", PyList(<<>>)),
      Prop("p05", "relation",
           PyList(<<PyDict([id |-> PyStr("r1")]), PyDict([id |-> PyStr("r2")])>>)),
      Prop("p06", "relation", PyList(<<>>)),
      Prop("p07", "multi_select", PyList(<<Named("A"), Named("B")>>)),
      Prop("p08", "multi_select", PyList(<<>>)),
      Prop("p09", "phone_number", PyStr("555")),
      Prop("p10", "phone_number", PyNone),
      Prop("p11", "url", PyStr("https://x")),
      Prop("p12", "date", PyNone),
      Prop("p13", "email", PyStr("a@b")),
      Prop("p14", "select", Named("Open")),
      Prop("p15", "select", PyNone),
      Prop("p16", "files", PyList(<<Named("f.pdf")>>)),
      Prop("p17", "files", PyList(<<>>)),
      Prop("p18", "rollup",
           PyDict([type |-> PyStr("number"), number |-> PyInt(3)])),
      Prop("p19", "number", PyInt(7)),
      Prop("p20", "number", PyInt(0)),
      Prop("p21", "number", PyNone),
      Prop("p22", "checkbox", PyBool(TRUE)),
      Prop("p23", "checkbox", PyBool(FALSE)),
      Prop("p24", "people", PyList(<<Named("Bob")>>)),
      Prop("p25", "people", PyList(<<>>)),
      Prop("p26", "formula", PyNone),
      Prop("p27", "formula", PyDict([type |-> PyStr("string")])),
      Prop("p28", "created_time", PyStr("2021-08-16")),
      Prop("p29", "created_time", PyStr("")),
      Prop("p30", "unique_id", PyInt(4)),
      Prop("p31", "unique_id", PyInt(0)) }


(***************************************************************************)
(* Python str operations on sequences of characters.                       *)
(***************************************************************************)
Min(a, b) == IF a < b THEN a ELSE b

Max(a, b) == IF a > b THEN a ELSE b

\* A slice bound as Python normalizes it: negative bounds count from the
\* end, and every bound is clamped to 0..len.
SliceBound(s, i) == IF i < 0 THEN Max(0, Len(s) + i) ELSE Min(i, Len(s))

\* s[a:b]
PySlice(s, a, b) == SubSeq(s, SliceBound(s, a) + 1, SliceBound(s, b))

\* s[a:]
PySliceFrom(s, a) == SubSeq(s, SliceBound(s, a) + 1, Len(s))

\* s.startswith(prefix)
startswith(s, prefix) ==
    /\ Len(s) >= Len(prefix)
    /\ SubSeq(s, 1, Len(prefix)) = prefix

\* s.find(sub): the lowest 0-based offset of sub in s, or -1.
find(s, sub) ==
    LET hits == {i \in 0..(Len(s) - Len(sub)) :
                    SubSeq(s, i + 1, i + Len(sub)) = sub}
    IN  IF hits = {} THEN -1
        ELSE CHOOSE i \in hits : \A j \in hits : i <= j

Dash == <<"-">>

_format_page_id(raw_id) ==
    PySlice(raw_id, 0, 8) \o Dash \o PySlice(raw_id, 8, 12) \o Dash
      \o PySlice(raw_id, 12, 16) \o Dash \o PySlice(raw_id, 16, 20) \o Dash
      \o PySliceFrom(raw_id, 20)

ViewMarker == <<"?", "v", "=">>

_extract_dbid_from_http_url(http_url) ==
    LET view_position_index == find(http_url, ViewMarker)
        initial_pos == view_position_index - 32
    IN  PySlice(http_url, initial_pos, view_position_index)

(***************************************************************************)
(* Identifiers the operations are called with.                             *)
(***************************************************************************)
HexDigits ==
    <<"0", "1", "2", "3", "4", "5", "6", "7",
      "8", "9", "a", "b", "c", "d", "e", "f">>

\* Number of different raw identifiers per stride.
IdSeeds == 3

\* A 32-character dash-free identifier; neighbouring characters differ, so
\* that a slice taken at a wrong offset yields a different string.
RawId(seed, stride) ==
    [i \in 1..32 |-> HexDigits[((seed + stride * (i - 1)) % 16) + 1]]

RawIds == {RawId(s, t) : s \in 0..(IdSeeds - 1), t \in {1, 3}}

CanonicalIds == {_format_page_id(r) : r \in RawIds}

\* The dashed 8-4-4-4-12 form: 36 characters, dashes at offsets 8, 13, 18
\* and 23 (0-based) and nowhere else.
IsCanonical(id) ==
    /\ Len(id) = 36
    /\ \A i \in 1..36 : (id[i] = "-") <=> (i \in {9, 14, 19, 24})

\* The characters of id that are no dashes, in order.
Undashed(id) == SelectSeq(id, LAMBDA c : c # "-")

UrlPrefix ==
    <<"h", "t", "t", "p", "s", ":", "/", "/", "n", ".", "s", "o", "/">>

\* The web address of a collection view: the raw id right before ?v=.
UrlOf(raw) == UrlPrefix \o raw \o ViewMarker \o <<"7", "e">>

(***************************************************************************)
(* NotionPage.  A page is [id, properties]; properties is a Python dict,   *)
(* kept as the sequence of its [name, prop] items in insertion order.      *)
(***************************************************************************)
NotionPage(json) == [id |-> json.id, properties |-> json.properties]

get_properties_keys(page) ==
    [i \in 1..Len(page.properties) |-> page.properties[i].name]

\* self.properties[key], wrapped: KeyError when the page lacks the key.
get_property(page, key) ==
    LET at == {i \in 1..Len(page.properties) : page.properties[i].name = key}
    IN  IF at = {} THEN Raise("KeyError")
        ELSE Return(page.properties[CHOOSE i \in at : TRUE].prop)

\* The mutant of get_property_value: the first property's value, whatever
\* the key.
get_property_value_first(page, key) == get_value(page.properties[1].prop)

get_property_value(page, key) ==
    LET page_property == get_property(page, key)
    IN  IF page_property.ok THEN get_value(page_property.val)
        ELSE page_property

(***************************************************************************)
(* pandas.DataFrame, as far as pages_to_dataframe uses it: the column      *)
(* labels, the row labels, and one cell per (row, column).                 *)
(***************************************************************************)
Range(s) == {s[i] : i \in 1..Len(s)}

\* pd.DataFrame(columns=columns): no rows yet.
DataFrame(columns) ==
    [columns |-> columns, index |-> <<>>, cells |-> [rc \in {} |-> PyNaN]]

AddLabel(labels, l) == IF l \in Range(labels) THEN labels ELSE Append(labels, l)

\* The mutant of at_set: a value for a column the frame does not have is
\* dropped instead of enlarging the frame.
at_set_known_columns(df, x, key, value) ==
    IF key \notin Range(df.columns) THEN df
    ELSE LET index == AddLabel(df.index, x)
         IN  [columns |-> df.columns, index |-> index,
              cells |-> [rc \in Range(index) \X Range(df.columns) |->
                           IF rc = <<x, key>> THEN value
                           ELSE IF rc \in DOMAIN df.cells THEN df.cells[rc]
                           ELSE PyNaN]]

\* df.at[x, key] = value.  A row label or a column label the frame does not
\* have yet is appended (setting with enlargement), its other cells NaN.
at_set(df, x, key, value) ==
    LET index == AddLabel(df.index, x)
        columns == AddLabel(df.columns, key)
    IN  [columns |-> columns, index |-> index,
         cells |-> [rc \in Range(index) \X Range(columns) |->
                      IF rc = <<x, key>> THEN value
                      ELSE IF rc \in DOMAIN df.cells THEN df.cells[rc]
                      ELSE PyNaN]]

\* The inner loop of pages_to_dataframe over the keys of one page.
RECURSIVE FillKeys(_, _, _, _)
FillKeys(df, x, page, property_keys) ==
    IF property_keys = <<>> THEN Return(df)
    ELSE LET key == Head(property_keys)
             value == get_property_value(page, key)
         IN  IF ~value.ok THEN value
             ELSE FillKeys(at_set(df, x, key, value.val), x, page,
                           Tail(property_keys))

\* The outer loop: enumerate(notion_pages), x counting from 0.
RECURSIVE FillRows(_, _, _)
FillRows(df, notion_pages, x) ==
    IF x >= Len(notion_pages) THEN Return(df)
    ELSE LET page == notion_pages[x + 1]
             filled == FillKeys(df, x, page, get_properties_keys(page))
         IN  IF ~filled.ok THEN filled
             ELSE FillRows(filled.val, notion_pages, x + 1)

\* The mutant of pages_to_dataframe: an empty list gives an empty table.
pages_to_dataframe_empty_ok(notion_pages) ==
    IF notion_pages = <<>> THEN Return(DataFrame(<<>>))
    ELSE FillRows(DataFrame(get_properties_keys(notion_pages[1])),
                  notion_pages, 0)

pages_to_dataframe(notion_pages) ==
    IF notion_pages = <<>> THEN Raise("IndexError")
    ELSE FillRows(DataFrame(get_properties_keys(notion_pages[1])),
                  notion_pages, 0)

Item(n, p) == [name |-> n, prop |-> p]

Title(s) == Prop("title", "title", PyList(<<RichText(s)>>))

\* The property maps of the records: maps that share their names, a map
\* with fewer names, one in another order, maps with names of their own,
\* falsy literals, and unrecognized tags with an empty and a filled value.
\* Every record has at least one property (a page of a collection always
\* carries its title) and every value decodes to a scalar or to nothing.
PropertyMaps ==
    << <<Item("Name", Title("Alice")), Item("Status", Prop("s1", "select", Named("Open")))>>,
       <<Item("Name", Title("Bob"))>>,
       <<Item("Score", Prop("n1", "number", PyInt(0))),
         Item("Name", Title("Carol")),
         Item("Done", Prop("c1", "checkbox", PyBool(FALSE)))>>,
       <<Item("Status", Prop("s1", "select", PyNone)), Item("Name", Title("Dan"))>>,
       <<Item("Name", Prop("title", "title", PyList(<<>>))),
         Item("Owner", Prop("o1", "people", PyList(<<>>)))>>,
       <<Item("Name", Title("Eve")),
         Item("Owner", Prop("o1", "people", PyList(<<Named("Bob")>>)))>> >>

\* The i-th row of the collection, i counting from 1.
Row(i) ==
    [id |-> i, properties |-> PropertyMaps[((i - 1) % Len(PropertyMaps)) + 1]]

\* Longest list of records pages_to_dataframe is called with directly.
MaxRecords == 2

RecordLists ==
    UNION {[1..n -> {NotionPage(Row(i)) : i \in 1..Len(PropertyMaps)}] :
             n \in 0..MaxRecords}

(***************************************************************************)
(* Requests and the remote service.                                        *)
(***************************************************************************)
\* _get_base_url() + path + "/" + id + "/" + tail
Url(path, id, tail) ==
    [base |-> "https://api.notion.com/v1/", path |-> path, id |-> id,
     tail |-> tail]

_build_headers(key) ==
    [NotionVersion |-> "2021-08-16", Authorization |-> <<"Bearer", key>>]

Request(method, url, headers, data, json) ==
    [method |-> method, url |-> url, headers |-> headers, data |-> data,
     json |-> json]

\* What the transport gives back for one request: a response with a status
\* code and a body, or an exception raised before any response exists.
NetResponse(code, content) ==
    [raised |-> FALSE, status_code |-> code, content |-> content]

NetException == [raised |-> TRUE, status_code |-> 0, content |-> PyNone]

ErrorBody == [object |-> "error"]

\* The mutant of post_request: raise_for_status is not called.
post_request_unchecked(net) ==
    IF net.raised THEN Raise("UnboundLocalError") ELSE Return(net)

\* requests.post + raise_for_status.  An error status raises HTTPError,
\* which is logged and turned into SystemExit; an exception of requests.post
\* itself leaves `response` unbound, so the logging line raises
\* UnboundLocalError.
post_request(net) ==
    IF net.raised THEN Raise("UnboundLocalError")
    ELSE IF net.status_code >= 400 THEN Raise("SystemExit")
    ELSE Return(net)

get_request(net) ==
    IF net.raised THEN Raise("UnboundLocalError")
    ELSE IF net.status_code >= 400 THEN Raise("SystemExit")
    ELSE Return(net)

\* Most pages the service splits a collection into.
MaxPages == 3

\* Most records the service puts on one page.
MaxPageSize == 2

Cursor(p) == [k |-> "cursor", v |-> p]

RECURSIVE Concat(_)
Concat(lists) ==
    IF lists = <<>> THEN <<>> ELSE Head(lists) \o Concat(Tail(lists))

\* The records on the pages served so far, in page order.
ServedResults(pages) == Concat([i \in 1..Len(pages) |-> pages[i].results])

\* The pages the service may serve next after `pages`: the following
\* records of the collection, any number up to the page size, with a
\* cursor of its own when more pages remain.
NewPages(pages) ==
    LET p == Len(pages) + 1
        n == Len(ServedResults(pages))
    IN  {[results |-> [i \in 1..s |-> Row(n + i)], has_more |-> h,
          next_cursor |-> IF h THEN Cursor(p) ELSE PyNone] :
           s \in 0..MaxPageSize,
           h \in IF p < MaxPages THEN BOOLEAN ELSE {FALSE}}

\* The position of the page a query request asks for: the first page
\* without a start_cursor, the page after the one that handed out the
\* cursor otherwise; 0 when no page handed out that cursor.
PageAsked(pages, request) ==
    IF request.json = PyNone THEN 1
    ELSE LET c == request.json.v.start_cursor
             at == {i \in 1..Len(pages) :
                       pages[i].has_more /\ pages[i].next_cursor = c}
         IN  IF at = {} THEN 0 ELSE (CHOOSE i \in at : TRUE) + 1

\* The answers the service may give to a query request.
QueryAnswers(pages, request) ==
    LET p == PageAsked(pages, request)
    IN  {NetException, NetResponse(404, ErrorBody), NetResponse(500, ErrorBody)}
          \cup (IF p = 0 THEN {NetResponse(400, ErrorBody)}
                ELSE IF p <= Len(pages) THEN {NetResponse(200, pages[p])}
                ELSE {NetResponse(200, page) : page \in NewPages(pages)})

\* The answers to a request for one object (users, databases/{id}).
ObjectAnswers ==
    {NetException, NetResponse(401, ErrorBody), NetResponse(200, [object |-> "ok"])}

(***************************************************************************)
(* NotionAPI.  Each operation gives its result and the requests it sent.   *)
(***************************************************************************)
Did(res, sent) == [res |-> res, sent |-> sent]

Secret == <<"s", "e", "c", "r", "e", "t">>

_check_connection(key, net) ==
    Did(get_request(net),
        <<Request("GET", Url("users", <<>>, ""), _build_headers(key),
                  PyNone, PyNone)>>)

\* The mutant of _add_notion_api_key: the connection is probed before the
\* key is looked at.
add_notion_api_key_probe_first(key, net) ==
    LET probe == _check_connection(key, net)
    IN  IF ~probe.res.ok THEN probe
        ELSE IF ~Truthy(key) THEN Did(Raise("SystemExit"), probe.sent)
        ELSE IF ~startswith(key.v, Secret)
             THEN Did(Raise("SystemExit"), probe.sent)
        ELSE probe

_add_notion_api_key(key, net) ==
    IF ~Truthy(key) THEN Did(Raise("SystemExit"), <<>>)
    ELSE IF ~startswith(key.v, Secret) THEN Did(Raise("SystemExit"), <<>>)
    ELSE _check_connection(key, net)

get_db(key, db_id, net) ==
    Did(get_request(net),
        <<Request("GET", Url("databases", _format_page_id(db_id), ""),
                  _build_headers(key), PyNone, PyNone)>>)

Https == <<"h", "t", "t", "p", "s">>

\* query_db, lines 86-87: the identifier the requests are addressed to.
QueryDbId(db) ==
    IF startswith(db, Https) THEN _extract_dbid_from_http_url(db) ELSE db

\* The first request of query_db: the query travels in `data`.
FirstRequest(key, db, query) ==
    Request("POST", Url("databases", QueryDbId(db), "query"),
            _build_headers(key), PyStr(query), PyNone)

\* The mutant of FollowUpRequest: a filter travels along with the cursor.
FollowUpRequestWithFilter(key, db, json_content) ==
    Request("POST", Url("databases", QueryDbId(db), "query"),
            _build_headers(key), PyNone,
            PyDict([start_cursor |-> json_content.next_cursor,
                    filter |-> PyStr("{filter}")]))

\* A follow-up request of the loop: json_arg holds the cursor alone.
FollowUpRequest(key, db, json_content) ==
    Request("POST", Url("databases", QueryDbId(db), "query"),
            _build_headers(key), PyNone,
            PyDict([start_cursor |-> json_content.next_cursor]))

\* The mutant of Accumulate: the new page replaces the earlier ones.
AccumulateLatest(json_results, json_content) == json_content.results

\* json_results += json_content["results"]
Accumulate(json_results, json_content) ==
    json_results \o json_content.results

\* query_db, lines 116-126: what is returned once the loop is over.
QueryResult(json_results, return_type) ==
    LET notion_pages == [i \in 1..Len(json_results) |->
                           NotionPage(json_results[i])]
    IN  CASE return_type = "json" -> Return(PyList(json_results))
          [] return_type = "dataframe" -> pages_to_dataframe(notion_pages)
          [] return_type = "NotionPage" -> Return(PyList(notion_pages))
          [] OTHER -> Return(PyNone)

(***************************************************************************)
(* Inputs of the operations.                                               *)
(***************************************************************************)
Keys ==
    { PyNone, PyChars(<<>>), PyChars(Secret), PyChars(Secret \o <<"_", "k">>),
      PyChars(<<"s", "e", "c", "r", "e">>),
      PyChars(<<"S", "e", "c", "r", "e", "t", "1">>),
      PyChars(<<"x">> \o Secret),
      PyChars(<<"t", "o", "k", "e", "n", "_", "a", "b">>) }

\* query_db is called with a view URL, a raw id or a dashed id.
DbArgs ==
    { UrlOf(RawId(1, 3)), UrlOf(RawId(2, 1)), RawId(1, 3),
      _format_page_id(RawId(1, 3)) }

Queries == {"", "{filter}"}

ReturnTypes == {"dataframe", "json", "NotionPage", "csv"}

(***************************************************************************)
(* State.                                                                  *)
(***************************************************************************)
VARIABLES
    api,             \* "none", "ready" (constructed) or "failed"
    NOTION_API_KEY,  \* self.NOTION_API_KEY
    requests,        \* the requests sent by the latest operation, in order
    answers,         \* the status code each of them got (0: no response)
    served,          \* the pages the service has served to the running query
    pc,              \* "idle", or "loop" inside query_db's while loop
    frame,           \* the local variables of the running query_db
    outcome          \* the latest finished operation, its argument and result

vars == <<api, NOTION_API_KEY, requests, answers, served, pc, frame, outcome>>

NoFrame == [db |-> <<>>]

NoOutcome == [op |-> "none"]

Init ==
    /\ api = "none"
    /\ NOTION_API_KEY = PyNone
    /\ requests = <<>>
    /\ answers = <<>>
    /\ served = <<>>
    /\ pc = "idle"
    /\ frame = NoFrame
    /\ outcome = NoOutcome

StatusOf(net) == net.status_code

\* The caller is between two calls: none is running and the result of the
\* last one has been taken.
Callable == pc = "idle" /\ outcome = NoOutcome

\* The caller takes the result of the finished call and goes on (the calls
\* follow one another, as in validate.py).
Collect ==
    /\ pc = "idle" /\ outcome # NoOutcome
    /\ outcome' = NoOutcome
    /\ requests' = <<>> /\ answers' = <<>> /\ served' = <<>>
    /\ UNCHANGED <<api, NOTION_API_KEY, pc, frame>>

\* NotionAPI(notion_api_key)
ConstructWith(keys) ==
    /\ api = "none" /\ Callable
    /\ \E key \in keys, net \in ObjectAnswers :
         LET did == _add_notion_api_key(key, net)
         IN  /\ NOTION_API_KEY' = key
             /\ api' = IF did.res.ok THEN "ready" ELSE "failed"
             /\ requests' = did.sent
             /\ answers' = [i \in 1..Len(did.sent) |-> StatusOf(net)]
             /\ outcome' = [op |-> "NotionAPI", arg |-> key, res |-> did.res]
    /\ UNCHANGED <<served, pc, frame>>

Construct == ConstructWith(Keys)

\* notion.get_db(db_id)
GetDb ==
    /\ api = "ready" /\ Callable
    /\ \E db_id \in RawIds \cup CanonicalIds, net \in ObjectAnswers :
         LET did == get_db(NOTION_API_KEY, db_id, net)
         IN  /\ requests' = did.sent
             /\ answers' = <<StatusOf(net)>>
             /\ outcome' = [op |-> "get_db", arg |-> db_id, res |-> did.res]
    /\ served' = <<>>
    /\ UNCHANGED <<api, NOTION_API_KEY, pc, frame>>

\* NotionAPI._format_page_id(raw_id)
FormatPageId ==
    /\ Callable
    /\ \E raw_id \in RawIds \cup CanonicalIds :
         outcome' = [op |-> "_format_page_id", arg |-> raw_id,
                     res |-> Return(PyChars(_format_page_id(raw_id)))]
    /\ requests' = <<>> /\ answers' = <<>> /\ served' = <<>>
    /\ UNCHANGED <<api, NOTION_API_KEY, pc, frame>>

\* NotionPageProperty(payload).get_value()
GetValue ==
    /\ Callable
    /\ \E p \in Payloads :
         outcome' = [op |-> "get_value", arg |-> p, res |-> get_value(p)]
    /\ requests' = <<>> /\ answers' = <<>> /\ served' = <<>>
    /\ UNCHANGED <<api, NOTION_API_KEY, pc, frame>>

\* NotionAPI.pages_to_dataframe(notion_pages)
PagesToDataframe ==
    /\ Callable
    /\ \E notion_pages \in RecordLists :
         outcome' = [op |-> "pages_to_dataframe", arg |-> notion_pages,
                     res |-> pages_to_dataframe(notion_pages)]
    /\ requests' = <<>> /\ answers' = <<>> /\ served' = <<>>
    /\ UNCHANGED <<api, NOTION_API_KEY, pc, frame>>

\* The mutant of LoopCondition: the loop goes on whatever the response says.
LoopConditionAlways(json_content) == TRUE

\* while json_content["has_more"]
LoopCondition(json_content) == json_content.has_more

\* query_db from the answer to a request on: the body is read (KeyError
\* when it has no "results"), the results are accumulated, and the call
\* either stays in the while loop or returns.
QueryStep(fr, net, first) ==
    LET response == post_request(net)
        json_content == net.content
        arg == [db |-> fr.db, query |-> fr.query,
                return_type |-> fr.return_type]
        read == IF ~response.ok THEN response
                ELSE IF "results" \notin DOMAIN json_content
                     THEN Raise("KeyError")
                ELSE Return(PyNone)
        json_results == IF first THEN json_content.results
                        ELSE Accumulate(fr.json_results, json_content)
    IN  IF ~read.ok
        THEN /\ pc' = "idle" /\ frame' = NoFrame
             /\ outcome' = [op |-> "query_db", arg |-> arg, res |-> read]
        ELSE IF LoopCondition(json_content)
        THEN /\ pc' = "loop"
             /\ frame' = [fr EXCEPT !.json_content = json_content,
                                    !.json_results = json_results]
             /\ outcome' = NoOutcome
        ELSE /\ pc' = "idle" /\ frame' = NoFrame
             /\ outcome' = [op |-> "query_db", arg |-> arg,
                            res |-> QueryResult(json_results, fr.return_type)]

\* The service's record of the pages served: a page served for the first
\* time is added.
Serve(pages, request, net) ==
    IF ~net.raised /\ net.status_code = 200
       /\ PageAsked(pages, request) = Len(pages) + 1
    THEN Append(pages, net.content) ELSE pages

\* notion.query_db(db, query, return_type), up to the answer to its first
\* request (lines 86-101).
QueryDbWith(dbs, queries, return_types) ==
    /\ api = "ready" /\ Callable
    /\ \E db \in dbs, query \in queries, return_type \in return_types :
         LET fr == [db |-> db, query |-> query, return_type |-> return_type,
                    json_content |-> PyNone, json_results |-> <<>>]
             request == FirstRequest(NOTION_API_KEY, db, query)
         IN  \E net \in QueryAnswers(<<>>, request) :
                /\ requests' = <<request>>
                /\ answers' = <<StatusOf(net)>>
                /\ served' = Serve(<<>>, request, net)
                /\ QueryStep(fr, net, TRUE)
    /\ UNCHANGED <<api, NOTION_API_KEY>>

QueryDb == QueryDbWith(DbArgs, Queries, ReturnTypes)

\* One iteration of query_db's while loop (lines 104-114), and the return
\* (lines 116-126) when the answer reports no more pages.
QueryNextPage ==
    /\ pc = "loop"
    /\ Len(requests) <= MaxPages
    /\ LET request == FollowUpRequest(NOTION_API_KEY, frame.db,
                                      frame.json_content)
       IN  \E net \in QueryAnswers(served, request) :
              /\ requests' = Append(requests, request)
              /\ answers' = Append(answers, StatusOf(net))
              /\ served' = Serve(served, request, net)
              /\ QueryStep(frame, net, FALSE)
    /\ UNCHANGED <<api, NOTION_API_KEY>>

Next ==
    \/ Construct
    \/ GetDb
    \/ FormatPageId
    \/ GetValue
    \/ PagesToDataframe
    \/ QueryDb
    \/ QueryNextPage
    \/ Collect

Spec == Init /\ [][Next]_vars

\* query_db runs synchronously: once inside the while loop, the next
\* iteration is taken (its request is answered or raises): weak fairness
\* of QueryNextPage.
\* The program that constructs the client and queries one collection, as
\* validate.py does, with every query payload and return type.
LoopNext ==
    \/ ConstructWith({PyChars(Secret \o <<"_", "k">>)})
    \/ QueryDbWith({RawId(1, 3)}, Queries, ReturnTypes)
    \/ QueryNextPage
    \/ Collect

LoopSpec == Init /\ [][LoopNext]_vars /\ WF_vars(QueryNextPage)

(***************************************************************************)
(* What the claims are stated over.                                        *)
(***************************************************************************)
\* A query_db call has finished and every request of it got a 200 answer.
QueryAnswered ==
    /\ outcome.op = "query_db"
    /\ \A i \in 1..Len(answers) : answers[i] = 200

\* The served pages report has_more on every page but the last.
ServedToTheEnd ==
    /\ served # <<>>
    /\ \A i \in 1..Len(served) : served[i].has_more <=> i < Len(served)

\* A table was assembled: by pages_to_dataframe itself, or by query_db
\* asked for a dataframe, from the records of the served pages.
Assembled ==
    \/ outcome.op = "pages_to_dataframe"
    \/ QueryAnswered /\ outcome.arg.return_type = "dataframe"

AssembledFrom ==
    IF outcome.op = "pages_to_dataframe" THEN outcome.arg
    ELSE LET rows == ServedResults(served)
         IN  [i \in 1..Len(rows) |-> NotionPage(rows[i])]

\* The names of a sequence in the order of their first appearance.
RECURSIVE FirstSeen(_)
FirstSeen(s) ==
    IF s = <<>> THEN <<>>
    ELSE LET before == FirstSeen(SubSeq(s, 1, Len(s) - 1))
         IN  AddLabel(before, s[Len(s)])

KeysOfAll(pages) ==
    Concat([i \in 1..Len(pages) |-> get_properties_keys(pages[i])])

HasKey(page, key) == key \in Range(get_properties_keys(page))

\* The payload a page holds under a key it has.
PayloadOf(page, key) ==
    page.properties[CHOOSE i \in 1..Len(page.properties) :
                      page.properties[i].name = key].prop

\* Some property of some record does not decode.
SomeDecodeFails(pages) ==
    \E i \in 1..Len(pages) : \E j \in 1..Len(pages[i].properties) :
        ~get_value(pages[i].properties[j].prop).ok

IsRaw32(id) == Len(id) = 32 /\ \A i \in 1..32 : id[i] # "-"

(***************************************************************************)
(* C1.  When every request is answered and the pages report has_more on    *)
(* all but the last, query_db returns the concatenation of the pages'      *)
(* results in page order, has sent one request per page, the first         *)
(* without a cursor and each later one with the next_cursor of the         *)
(* response just before it.                                                *)
(***************************************************************************)
C1_Pagination ==
    (QueryAnswered /\ ServedToTheEnd) =>
        /\ Len(requests) = Len(served)
        /\ requests[1].json = PyNone
        /\ \A i \in 2..Len(requests) :
              requests[i].json =
                  PyDict([start_cursor |-> served[i - 1].next_cursor])
        /\ outcome.arg.return_type = "json" =>
              outcome.res = Return(PyList(ServedResults(served)))
        /\ outcome.arg.return_type = "NotionPage" =>
              outcome.res = Return(PyList(AssembledFrom))

C1_Witness ==
    /\ QueryAnswered /\ ServedToTheEnd
    /\ outcome.arg.return_type = "json"
    /\ Len(served) = 3
    /\ \A i \in 1..3 : served[i].results # <<>>
    /\ Len(outcome.res.val.v) >= 3

(***************************************************************************)
(* C2.  A query request that gets an error status is the last request of   *)
(* the call, and the call ends with SystemExit, returning nothing.         *)
(***************************************************************************)
C2_AbortOnFailure ==
    \A i \in 1..Len(requests) :
        (requests[i].method = "POST" /\ answers[i] >= 400) =>
            /\ i = Len(requests)
            /\ pc = "idle"
            /\ outcome.op = "query_db"
            /\ outcome.res = Raise("SystemExit")

C2_Witness ==
    /\ Len(requests) = 3
    /\ requests[3].method = "POST"
    /\ answers = <<200, 200, 500>>
    /\ ServedResults(served) # <<>>
    /\ outcome.op = "query_db" /\ ~outcome.res.ok

(***************************************************************************)
(* C3.  Called with a view URL or a raw 32-character id, query_db          *)
(* addresses every request to the dashed form of the id.                   *)
(***************************************************************************)
QueryArg ==
    IF pc = "loop" THEN frame.db
    ELSE IF outcome.op = "query_db" THEN outcome.arg.db
    ELSE <<>>

C3_CanonicalAddress ==
    (QueryArg # <<>> /\ IsRaw32(QueryDbId(QueryArg))) =>
        \A i \in 1..Len(requests) :
            /\ IsCanonical(requests[i].url.id)
            /\ requests[i].url.id = _format_page_id(QueryDbId(QueryArg))

(***************************************************************************)
(* C4.  get_value gives a checkbox its boolean and a number its numeric    *)
(* literal, the falsy ones included.                                       *)
(***************************************************************************)
C4_FalsyLiterals ==
    (/\ outcome.op = "get_value"
     /\ \/ outcome.arg.type = "checkbox" /\ outcome.arg.value.k = "bool"
        \/ outcome.arg.type = "number" /\ outcome.arg.value.k = "int") =>
        outcome.res = Return(outcome.arg.value)

(***************************************************************************)
(* C5.  get_value fails on every payload whose type tag is not recognized, *)
(* whatever its value, and so does the table assembly over such a payload. *)
(***************************************************************************)
Recognized == KnownTypes \cup {"checkbox"}

C5_UnknownTagFails ==
    /\ (outcome.op = "get_value" /\ outcome.arg.type \notin Recognized) =>
          ~outcome.res.ok
    /\ (/\ outcome.op = "pages_to_dataframe"
        /\ \E i \in 1..Len(outcome.arg) :
             \E j \in 1..Len(outcome.arg[i].properties) :
                outcome.arg[i].properties[j].prop.type \notin Recognized) =>
          ~outcome.res.ok

C7_RowsAndCells ==
    Assembled =>
        LET pages == AssembledFrom
            df == outcome.res.val
        IN  IF outcome.res.ok
            THEN /\ df.index = [i \in 1..Len(pages) |-> i - 1]
                 /\ \A i \in 1..Len(pages) : \A c \in Range(df.columns) :
                       df.cells[<<i - 1, c>>] =
                           IF HasKey(pages[i], c)
                           THEN get_value(PayloadOf(pages[i], c)).val
                           ELSE PyNaN
            ELSE pages = <<>> \/ SomeDecodeFails(pages)

C7_Witness ==
    /\ outcome.op = "pages_to_dataframe" /\ outcome.res.ok
    /\ Len(outcome.arg) = 2
    /\ \E c \in Range(outcome.res.val.columns) :
          /\ HasKey(outcome.arg[1], c) /\ ~HasKey(outcome.arg[2], c)
          /\ outcome.res.val.cells[<<0, c>>].k = "str"
          /\ outcome.res.val.cells[<<1, c>>] = PyNaN

(***************************************************************************)
(* C8.  pages_to_dataframe fails on an empty list, and so does query_db    *)
(* asked for a dataframe when the served pages hold no record at all.      *)
(***************************************************************************)
C8_EmptyInputFails ==
    (Assembled /\ AssembledFrom = <<>>) => outcome.res = Raise("IndexError")

C8_Witness ==
    /\ QueryAnswered /\ outcome.arg.return_type = "dataframe"
    /\ Len(served) >= 2
    /\ ServedResults(served) = <<>>
    /\ ~outcome.res.ok

(***************************************************************************)
(* C9.  Constructing NotionAPI with a key that is None, empty or does not  *)
(* start with "secret" fails, and no request has been sent.                *)
(***************************************************************************)
BadKey(key) == ~Truthy(key) \/ ~startswith(key.v, Secret)

C9_BadKeyNoRequest ==
    (outcome.op = "NotionAPI" /\ BadKey(outcome.arg)) =>
        /\ outcome.res = Raise("SystemExit")
        /\ api = "failed"
        /\ requests = <<>>

C9_Witness ==
    /\ outcome.op = "NotionAPI"
    /\ Truthy(outcome.arg) /\ ~startswith(outcome.arg.v, Secret)
    /\ ~outcome.res.ok
    /\ requests = <<>>

(***************************************************************************)
(* C10.  _format_page_id turns a 32-character dash-free id into the        *)
(* 36-character dashed form, and rejects an id that is already dashed.     *)
(***************************************************************************)
C10_FormatChecksInput ==
    outcome.op = "_format_page_id" =>
        /\ IsRaw32(outcome.arg) =>
              /\ outcome.res.ok
              /\ IsCanonical(outcome.res.val.v)
              /\ Undashed(outcome.res.val.v) = outcome.arg
        /\ IsCanonical(outcome.arg) => ~outcome.res.ok

(***************************************************************************)
(* C11.  The while loop of query_db sends another request exactly while    *)
(* the latest response reports has_more: every request but the last was    *)
(* answered with has_more = TRUE, the call is inside the loop only after   *)
(* such an answer and is then never held back by a count of iterations,    *)
(* a call that returns has just read has_more = FALSE, and a call inside   *)
(* the loop eventually ends.                                               *)
(***************************************************************************)
InQuery == pc = "loop" \/ outcome.op = "query_db"

\* The i-th request was answered with a page that reports has_more.
AnsweredMore(i) ==
    /\ answers[i] = 200
    /\ i <= Len(served)
    /\ served[i].has_more

C11_StopsAtNoMore ==
    InQuery =>
        /\ \A i \in 1..(Len(requests) - 1) : AnsweredMore(i)
        /\ pc = "loop" =>
              /\ AnsweredMore(Len(requests))
              /\ ENABLED QueryNextPage
        /\ (pc = "idle" /\ answers[Len(answers)] = 200) =>
              /\ Len(served) = Len(requests)
              /\ ~served[Len(served)].has_more

C11_LoopStops == [](C11_StopsAtNoMore) /\ (pc = "loop" ~> pc = "idle")

C11_Witness ==
    /\ QueryAnswered
    /\ Len(requests) = MaxPages
    /\ \A i \in 1..(MaxPages - 1) : served[i].has_more
    /\ ~served[MaxPages].has_more
    /\ outcome.res.ok

(***************************************************************************)
(* C12.  Only the first request of query_db carries the caller's query (in *)
(* `data`, with no json body); every follow-up request has no `data` and   *)
(* a json body made of the start_cursor of the previous response alone.    *)
(***************************************************************************)
QueryPayload == IF pc = "loop" THEN frame.query ELSE outcome.arg.query

C12_QueryOnFirstRequestOnly ==
    InQuery =>
        /\ requests[1].data = PyStr(QueryPayload)
        /\ requests[1].json = PyNone
        /\ \A i \in 2..Len(requests) :
              /\ requests[i].data = PyNone
              /\ requests[i].json.k = "dict"
              /\ DOMAIN requests[i].json.v = {"start_cursor"}
              /\ requests[i].json.v.start_cursor = served[i - 1].next_cursor

C12_Witness ==
    /\ InQuery
    /\ QueryPayload = "{filter}"
    /\ Len(requests) >= 2
    /\ requests[1].data = PyStr("{filter}")
    /\ requests[2].data = PyNone


=============================================================================
